---- MODULE Spec2Model ----
(***************************************************************************)
(* Model of the icon scripts of csh-caffeine (Assets/Icons/Sources):       *)
(*   - the two hand-written ICO encoders, create_ico_file                  *)
(*     (create_multisize_ico.py) and create_ico_manually                   *)
(*     (convert_to_ico.py), at byte level;                                 *)
(*   - the directory parser verify_ico_structure                           *)
(*     (verify_ico_structure.py), reading the bytes the encoders wrote;    *)
(*   - the batch drivers convert_icons.main and convert_to_ico.main.       *)
(*   - verify_ico_structure.main, create_ico / draw_icon's status key,     *)
(*     and draw_coffee_cup's drawing calls in both scripts that have it.   *)
(* A file is a sequence of bytes (0..255).  A PNG payload is abstracted    *)
(* to a short byte string whose length is chosen nondeterministically.     *)
(***************************************************************************)
EXTENDS Integers, Sequences, FiniteSets, TLC

VARIABLES
    script,          \* which script runs
    caller,          \* who called the encoder: "create_icon", "create_ico", "direct"
    images,          \* the encoder's argument: sequence of [width, height]
    image_data_list, \* the PNG payloads, one per image, in order
    ico_data,        \* create_ico_file's in-memory BytesIO buffer
    disk,            \* the output file: [exists, data]
    offset,          \* running payload offset (offset / current_offset)
    i,               \* loop index of the encoder
    pc,              \* position of the running script
    tamper,          \* what happened to the file after it was written
    type_field,      \* verifier: header type
    count,           \* verifier: header image count
    sizes,           \* verifier: (width, height) pairs collected
    vi,              \* verifier: loop index (entries read so far)
    incomplete,      \* verifier: an incomplete ICONDIRENTRY was reported
    status,          \* verifier: "none", "OK" or "WARNING"
    result,          \* verifier: "none", "True" or "False" (return value)
    outcome,         \* batch drivers: per icon "pending"/"skipped"/"created"/"error"
    b_idx,           \* batch drivers: index of the next icon
    style,           \* the status key handed to create_ico / draw_icon
    all_valid,       \* verify_ico_structure.main: all_valid
    exit_code,       \* verify_ico_structure.main: process exit code, -1 while running
    first,           \* the file and payloads of the first encoder, when both are run
    steam_color,     \* draw_coffee_cup: TRUE when a steam colour is given
    dc,              \* draw_coffee_cup: position [k: index of the size, step, hi: handle loop i]
    canvas,          \* draw_coffee_cup: the drawing calls made for the current size
    drawn            \* create_icon: the finished drawings, one per size

vars == <<script, caller, images, image_data_list, ico_data, disk, offset, i, pc,
          tamper, type_field, count, sizes, vi, incomplete, status, result,
          outcome, b_idx, style, all_valid, exit_code, first, steam_color, dc,
          canvas, drawn>>

verVars == <<type_field, count, sizes, vi, incomplete, status, result>>
batchVars == <<outcome, b_idx>>
mainVars == <<all_valid, exit_code>>
drawVars == <<steam_color, dc, canvas, drawn>>

----------------------------------------------------------------------------
(* Bounds *)

\* longest list of arbitrary bitmaps handed directly to an encoder
MaxImages == 2
\* longest PNG payload, in bytes
MaxPayload == 2

----------------------------------------------------------------------------
(* Program constants *)

header_size == 6
dir_entry_size == 16

\* default sizes of create_icon
create_icon_sizes == <<16, 24, 32, 48>>
\* SIZES of convert_to_ico.py
SIZES == <<16, 24, 32, 48, 256>>
\* expected_sizes of verify_ico_structure
expected_sizes_five == << <<16, 16>>, <<24, 24>>, <<32, 32>>, <<48, 48>>, <<256, 256>> >>
expected_sizes == << <<16, 16>>, <<24, 24>>, <<32, 32>>, <<48, 48>> >>
\* the hard-coded icon lists of the batch drivers have three icons each
icons == 1..3

----------------------------------------------------------------------------
(* struct.pack / struct.unpack, little-endian *)

\* struct.pack('<H', n)
PackH(n) == <<n % 256, (n \div 256) % 256>>
\* struct.pack('<I', n)
PackI(n) == <<n % 256, (n \div 256) % 256, (n \div 65536) % 256, (n \div 16777216) % 256>>
\* struct.unpack('<H', b[p..p+1]), p is 1-based
UnpackH(b, p) == b[p] + 256 * b[p + 1]
\* struct.unpack('<I', b[p..p+3])
UnpackI(b, p) == b[p] + 256 * b[p + 1] + 65536 * b[p + 2] + 16777216 * b[p + 3]

----------------------------------------------------------------------------
(* Inputs *)

Bitmap(w, h) == [width |-> w, height |-> h]
Square(s) == Bitmap(s, s)
Squares(ss) == [k \in 1..Len(ss) |-> Square(ss[k])]

\* bitmaps a caller may hand to an encoder directly: square ones at the edge of
\* the byte range, one too large, one not square
Bitmaps == {Square(255), Square(256), Square(300), Bitmap(16, 32)}

SeqsUpTo(S, n) == UNION {[1..k -> S] : k \in 0..n}

\* lists for a direct call: every short list, and the default sizes in another
\* order or with one more bitmap (a duplicate, 256, or an invalid one)
DirectInputs ==
    SeqsUpTo(Bitmaps, MaxImages)
    \cup {Squares(create_icon_sizes) \o <<b>> : b \in Bitmaps \cup {Square(16)}}
    \cup {Squares(<<48, 32, 24, 16>>)}

PayloadLens == 1..MaxPayload

\* img.save(buf, format='PNG'): a byte string starting with the first byte of the
\* PNG signature and carrying the image's dimensions; its length is not
\* determined by the dimensions
PngData(img, len) ==
    [k \in 1..len |-> IF k = 1 THEN 137 ELSE (img.width + img.height) % 256]

NoFile == [exists |-> FALSE, data |-> <<>>]
File(bytes) == [exists |-> TRUE, data |-> bytes]

RECURSIVE Concat(_)
\* b''.join(list)
Concat(list) == IF list = <<>> THEN <<>> ELSE Head(list) \o Concat(Tail(list))

----------------------------------------------------------------------------
(* Encoders: the packed records *)

\* struct.pack('<HHH', 0, 1, n)
IconDirBugCount(n) == PackH(0) \o PackH(1) \o PackH(n + 1)
IconDir(n) == PackH(0) \o PackH(1) \o PackH(n)

\* struct.pack('<BBBBHHII', w, h, 0, 0, 1, 32, size, off)
IconDirEntry(w, h, size, off) ==
    <<w, h, 0, 0>> \o PackH(1) \o PackH(32) \o PackI(size) \o PackI(off)

----------------------------------------------------------------------------
(* Initial state: a script has been started, nothing is on disk *)

Scripts == {"create_multisize_ico", "convert_to_ico", "convert_icons", "convert_to_ico_main",
            "verify_ico_structure_main", "both_encoders",
            "create_multisize_ico_draw", "convert_icons_pil_draw"}

\* the two scripts that draw the coffee cup
DrawScripts == {"create_multisize_ico_draw", "convert_icons_pil_draw"}

Init ==
    /\ script \in Scripts
    /\ caller = "none"
    /\ images = <<>>
    /\ image_data_list = <<>>
    /\ ico_data = <<>>
    /\ disk = NoFile
    /\ offset = 0
    /\ i = 1
    /\ pc = "start"
    /\ tamper = "none"
    /\ type_field = 0
    /\ count = 0
    /\ sizes = <<>>
    /\ vi = 0
    /\ incomplete = FALSE
    /\ status = "none"
    /\ result = "none"
    /\ outcome = [k \in icons |-> "pending"]
    /\ b_idx = 1
    /\ style = "none"
    /\ all_valid = TRUE
    /\ exit_code = -1
    /\ first = [done |-> FALSE, file |-> <<>>, payloads |-> <<>>]
    /\ steam_color \in (IF script \in DrawScripts THEN BOOLEAN ELSE {FALSE})
    /\ dc = [k |-> 1, step |-> "body", hi |-> 0]
    /\ canvas = <<>>
    /\ drawn = <<>>

----------------------------------------------------------------------------
(* Callers of the encoders *)

\* create_icon(name, cup_color, steam_color): one square image per default size,
\* then create_ico_file(images, ico_path)
create_icon ==
    /\ script = "create_multisize_ico" /\ pc = "start"
    /\ images' = Squares(create_icon_sizes)
    /\ caller' = "create_icon"
    /\ pc' = "cif_header"
    /\ UNCHANGED <<script, image_data_list, ico_data, disk, offset, i, tamper>>
    /\ UNCHANGED verVars /\ UNCHANGED batchVars
    /\ UNCHANGED <<style, first>> /\ UNCHANGED mainVars /\ UNCHANGED drawVars

\* STATUS_COLORS.keys()
STATUS_COLORS == {"active", "inactive", "paused"}

\* status keys a caller may hand to create_ico / draw_icon: the three supported
\* ones and one that STATUS_COLORS does not hold
StatusArgs == STATUS_COLORS \cup {"unknown"}

\* draw_icon: status_color = hex_to_rgb(STATUS_COLORS[status]) raises KeyError
\* for a status that is no key
draw_icon_raisesBugDefault(st) == FALSE
draw_icon_raises(st) == st \notin STATUS_COLORS

\* draw_icon(size, status): img = Image.new('RGBA', (size, size)); ...; return img
draw_icon(size, st) == Square(size)

\* create_ico(status): one draw_icon image per SIZES entry, then
\* create_ico_manually(images, ico_path); an exception of draw_icon leaves
\* create_ico before the encoder is called
create_ico ==
    /\ script = "convert_to_ico" /\ pc = "start"
    /\ \E st \in StatusArgs :
          /\ style' = st
          /\ IF draw_icon_raises(st)
             THEN images' = images /\ pc' = "raised"
             ELSE /\ images' = [k \in 1..Len(SIZES) |-> draw_icon(SIZES[k], st)]
                  /\ pc' = "cim_png"
    /\ caller' = "create_ico"
    /\ UNCHANGED <<script, image_data_list, ico_data, disk, offset, i, tamper>>
    /\ UNCHANGED verVars /\ UNCHANGED batchVars
    /\ UNCHANGED first /\ UNCHANGED mainVars /\ UNCHANGED drawVars

\* a direct call of create_ico_file / create_ico_manually with any list of images
DirectCall ==
    /\ script \in {"create_multisize_ico", "convert_to_ico"} /\ pc = "start"
    /\ \E imgs \in DirectInputs : images' = imgs
    /\ caller' = "direct"
    /\ pc' = IF script = "create_multisize_ico" THEN "cif_header" ELSE "cim_png"
    /\ UNCHANGED <<script, image_data_list, ico_data, disk, offset, i, tamper>>
    /\ UNCHANGED verVars /\ UNCHANGED batchVars
    /\ UNCHANGED <<style, first>> /\ UNCHANGED mainVars /\ UNCHANGED drawVars

----------------------------------------------------------------------------
(* create_ico_file (create_multisize_ico.py) *)

\* w = width if width < 256 else 0  (and h alike)
CifDimBugOffByOne(d) == IF d < 255 THEN d ELSE 0
CifDim(d) == IF d < 256 THEN d ELSE 0

\* offset = 6 + (16 * len(images))
CifOffsetBugNoHeader(n) == 16 * n
CifOffset(n) == 6 + (16 * n)

\* ico_data = io.BytesIO(); ico_data.write(struct.pack('<HHH', 0, 1, len(images)))
CIF_Header ==
    /\ pc = "cif_header"
    /\ ico_data' = IconDir(Len(images))
    /\ i' = 1
    /\ pc' = "cif_png"
    /\ UNCHANGED <<script, caller, images, image_data_list, disk, offset, tamper>>
    /\ UNCHANGED verVars /\ UNCHANGED batchVars
    /\ UNCHANGED <<style, first>> /\ UNCHANGED mainVars /\ UNCHANGED drawVars

\* for img in images: ... image_data_list.append(png_data)
CIF_Png ==
    /\ pc = "cif_png" /\ i <= Len(images)
    /\ \E len \in PayloadLens :
          image_data_list' = Append(image_data_list, PngData(images[i], len))
    /\ i' = i + 1
    /\ UNCHANGED <<script, caller, images, ico_data, disk, offset, pc, tamper>>
    /\ UNCHANGED verVars /\ UNCHANGED batchVars
    /\ UNCHANGED <<style, first>> /\ UNCHANGED mainVars /\ UNCHANGED drawVars

\* offset = 6 + (16 * len(images))
CIF_Offset ==
    /\ pc = "cif_png" /\ i > Len(images)
    /\ offset' = CifOffset(Len(images))
    /\ i' = 1
    /\ pc' = "cif_entry"
    /\ UNCHANGED <<script, caller, images, image_data_list, ico_data, disk, tamper>>
    /\ UNCHANGED verVars /\ UNCHANGED batchVars
    /\ UNCHANGED <<style, first>> /\ UNCHANGED mainVars /\ UNCHANGED drawVars

\* for img, png_data in zip(images, image_data_list): write one ICONDIRENTRY
CIF_Entry ==
    /\ pc = "cif_entry" /\ i <= Len(images)
    /\ LET png_data == image_data_list[i]
           w == CifDim(images[i].width)
           h == CifDim(images[i].height)
       IN /\ ico_data' = ico_data \o IconDirEntry(w, h, Len(png_data), offset)
          /\ offset' = offset + Len(png_data)
    /\ i' = i + 1
    /\ UNCHANGED <<script, caller, images, image_data_list, disk, pc, tamper>>
    /\ UNCHANGED verVars /\ UNCHANGED batchVars
    /\ UNCHANGED <<style, first>> /\ UNCHANGED mainVars /\ UNCHANGED drawVars

\* for png_data in image_data_list: ico_data.write(png_data)
CIF_Data ==
    /\ pc = "cif_entry" /\ i > Len(images)
    /\ ico_data' = ico_data \o Concat(image_data_list)
    /\ pc' = "cif_write"
    /\ UNCHANGED <<script, caller, images, image_data_list, disk, offset, i, tamper>>
    /\ UNCHANGED verVars /\ UNCHANGED batchVars
    /\ UNCHANGED <<style, first>> /\ UNCHANGED mainVars /\ UNCHANGED drawVars

\* with open(output_path, 'wb') as f: f.write(ico_data.getvalue())
CIF_Write ==
    /\ pc = "cif_write"
    /\ disk' = File(ico_data)
    /\ pc' = "written"
    /\ UNCHANGED <<script, caller, images, image_data_list, ico_data, offset, i, tamper>>
    /\ UNCHANGED verVars /\ UNCHANGED batchVars
    /\ UNCHANGED <<style, first>> /\ UNCHANGED mainVars /\ UNCHANGED drawVars

----------------------------------------------------------------------------
(* create_ico_manually (convert_to_ico.py) *)

\* width = img.width if img.width < 256 else 0  (and height alike)
CimDim(d) == IF d < 256 THEN d ELSE 0

\* data_offset = header_size + (dir_entry_size * num_images)
CimDataOffsetBugNoHeader(n) == dir_entry_size * n
CimDataOffset(n) == header_size + (dir_entry_size * n)

\* the lengths img.save may give for image k: saving the image that the first
\* encoder saved gives the same bytes again
PngLens(k) == IF first.done THEN {Len(first.payloads[k])} ELSE PayloadLens

\* for img in images: ... png_data_list.append(buf.getvalue())
CIM_Png ==
    /\ pc = "cim_png" /\ i <= Len(images)
    /\ \E len \in PngLens(i) :
          image_data_list' = Append(image_data_list, PngData(images[i], len))
    /\ i' = i + 1
    /\ UNCHANGED <<script, caller, images, ico_data, disk, offset, pc, tamper>>
    /\ UNCHANGED verVars /\ UNCHANGED batchVars
    /\ UNCHANGED <<style, first>> /\ UNCHANGED mainVars /\ UNCHANGED drawVars

\* with open(ico_path, 'wb') as f: the file is created, or truncated, empty
CIM_Open ==
    /\ pc = "cim_png" /\ i > Len(images)
    /\ disk' = File(<<>>)
    /\ pc' = "cim_header"
    /\ UNCHANGED <<script, caller, images, image_data_list, ico_data, offset, i, tamper>>
    /\ UNCHANGED verVars /\ UNCHANGED batchVars
    /\ UNCHANGED <<style, first>> /\ UNCHANGED mainVars /\ UNCHANGED drawVars

\* f.write(struct.pack('<HHH', 0, 1, num_images)); current_offset = data_offset
CIM_Header ==
    /\ pc = "cim_header"
    /\ disk' = File(disk.data \o IconDir(Len(images)))
    /\ offset' = CimDataOffset(Len(images))
    /\ i' = 1
    /\ pc' = "cim_entry"
    /\ UNCHANGED <<script, caller, images, image_data_list, ico_data, tamper>>
    /\ UNCHANGED verVars /\ UNCHANGED batchVars
    /\ UNCHANGED <<style, first>> /\ UNCHANGED mainVars /\ UNCHANGED drawVars

\* for i, img in enumerate(images): write one directory entry
CIM_Entry ==
    /\ pc = "cim_entry" /\ i <= Len(images)
    /\ LET width == CimDim(images[i].width)
           height == CimDim(images[i].height)
           png_size == Len(image_data_list[i])
       IN /\ disk' = File(disk.data \o IconDirEntry(width, height, png_size, offset))
          /\ offset' = offset + png_size
    /\ i' = i + 1
    /\ UNCHANGED <<script, caller, images, image_data_list, ico_data, pc, tamper>>
    /\ UNCHANGED verVars /\ UNCHANGED batchVars
    /\ UNCHANGED <<style, first>> /\ UNCHANGED mainVars /\ UNCHANGED drawVars

\* for png_data in png_data_list: f.write(png_data); then the file is closed
CIM_Data ==
    /\ pc = "cim_entry" /\ i > Len(images)
    /\ disk' = File(disk.data \o Concat(image_data_list))
    /\ pc' = "written"
    /\ UNCHANGED <<script, caller, images, image_data_list, ico_data, offset, i, tamper>>
    /\ UNCHANGED verVars /\ UNCHANGED batchVars
    /\ UNCHANGED <<style, first>> /\ UNCHANGED mainVars /\ UNCHANGED drawVars

----------------------------------------------------------------------------
(* The file between writing and verification *)

\* cut points of a truncation: inside the header, and at the start and in the
\* middle of every directory entry
TruncPoints(n) ==
    {3} \cup {header_size + dir_entry_size * k : k \in 0..(n - 1)}
        \cup {header_size + dir_entry_size * k + 8 : k \in 0..(n - 1)}

\* the written file is truncated to fewer than 6 + 16 * count bytes
Truncate ==
    /\ pc = "written" /\ tamper = "none"
    /\ \E n \in TruncPoints(Len(images)) :
          /\ n < header_size + dir_entry_size * Len(images)
          /\ disk' = File(SubSeq(disk.data, 1, n))
    /\ tamper' = "truncated"
    /\ UNCHANGED <<script, caller, images, image_data_list, ico_data, offset, i, pc>>
    /\ UNCHANGED verVars /\ UNCHANGED batchVars
    /\ UNCHANGED <<style, first>> /\ UNCHANGED mainVars /\ UNCHANGED drawVars

\* the header's reserved or type field holds another value
CorruptHeader ==
    /\ pc = "written" /\ tamper = "none"
    /\ \E r \in {0, 1}, t \in {1, 2} :
          /\ <<r, t>> # <<0, 1>>
          /\ disk' = File(PackH(r) \o PackH(t) \o SubSeq(disk.data, 5, Len(disk.data)))
    /\ tamper' = "corrupted"
    /\ UNCHANGED <<script, caller, images, image_data_list, ico_data, offset, i, pc>>
    /\ UNCHANGED verVars /\ UNCHANGED batchVars
    /\ UNCHANGED <<style, first>> /\ UNCHANGED mainVars /\ UNCHANGED drawVars

----------------------------------------------------------------------------
(* verify_ico_structure (verify_ico_structure.py) *)

\* actual_width = width if width != 0 else 256
ActualDim(b) == IF b # 0 THEN b ELSE 256

\* Python's tuple order on (width, height) pairs
PairLeq(a, b) == a[1] < b[1] \/ (a[1] = b[1] /\ a[2] <= b[2])

RECURSIVE Insert(_, _)
Insert(x, s) ==
    IF s = <<>> THEN <<x>>
    ELSE IF PairLeq(x, Head(s)) THEN <<x>> \o s
    ELSE <<Head(s)>> \o Insert(x, Tail(s))

RECURSIVE sorted(_)
\* sorted(sizes)
sorted(s) == IF s = <<>> THEN <<>> ELSE Insert(Head(s), sorted(Tail(s)))

\* set(sizes)
set(s) == {s[k] : k \in 1..Len(s)}

\* if sorted(sizes) == expected_sizes
SizesMatchBugSet(s) == set(s) = set(expected_sizes)
SizesMatch(s) == sorted(s) = expected_sizes

\* return len(sizes) >= 2
WarningReturn(s) == IF Len(s) >= 2 THEN "True" ELSE "False"

\* if type_field != 1: ... return False
HeaderRejected(reserved, type) == type # 1

\* open, f.read(6), struct.unpack('<HHH'), type check; any exception returns False
V_Header ==
    /\ pc = "written"
    /\ IF ~disk.exists \/ Len(disk.data) < 6
       THEN /\ result' = "False"
            /\ pc' = "v_done"
            /\ UNCHANGED <<type_field, count, sizes, vi>>
       ELSE LET reserved == UnpackH(disk.data, 1)
                type == UnpackH(disk.data, 3)
            IN /\ type_field' = type
               /\ count' = UnpackH(disk.data, 5)
               /\ sizes' = <<>>
               /\ vi' = 0
               /\ IF HeaderRejected(reserved, type)
                  THEN result' = "False" /\ pc' = "v_done"
                  ELSE result' = result /\ pc' = "v_entry"
    /\ UNCHANGED <<script, caller, images, image_data_list, ico_data, disk, offset, i,
                   tamper, incomplete, status>>
    /\ UNCHANGED batchVars
    /\ UNCHANGED <<style, first>> /\ UNCHANGED mainVars /\ UNCHANGED drawVars

\* one iteration of: for i in range(count)
V_Entry ==
    /\ pc = "v_entry" /\ vi < count
    /\ LET pos == 6 + 16 * vi
       IN IF Len(disk.data) - pos < 16
          THEN /\ incomplete' = TRUE
               /\ pc' = "v_report"
               /\ UNCHANGED <<sizes, vi>>
          ELSE LET width == disk.data[pos + 1]
                   height == disk.data[pos + 2]
               IN /\ sizes' = Append(sizes, <<ActualDim(width), ActualDim(height)>>)
                  /\ vi' = vi + 1
                  /\ UNCHANGED <<incomplete, pc>>
    /\ UNCHANGED <<script, caller, images, image_data_list, ico_data, disk, offset, i,
                   tamper, type_field, count, status, result>>
    /\ UNCHANGED batchVars
    /\ UNCHANGED <<style, first>> /\ UNCHANGED mainVars /\ UNCHANGED drawVars

\* after the loop (ended or left by break): the summary and the return value
V_Report ==
    /\ pc = "v_report" \/ (pc = "v_entry" /\ vi >= count)
    /\ IF SizesMatch(sizes)
       THEN status' = "OK" /\ result' = "True"
       ELSE status' = "WARNING" /\ result' = WarningReturn(sizes)
    /\ pc' = "v_done"
    /\ UNCHANGED <<script, caller, images, image_data_list, ico_data, disk, offset, i,
                   tamper, type_field, count, sizes, vi, incomplete>>
    /\ UNCHANGED batchVars
    /\ UNCHANGED <<style, first>> /\ UNCHANGED mainVars /\ UNCHANGED drawVars

----------------------------------------------------------------------------
(* convert_icons.main: the SVG batch driver *)

\* if not os.path.exists(svg_path): print warning; continue
CI_Skip ==
    /\ script = "convert_icons" /\ pc = "start" /\ b_idx \in icons
    /\ outcome' = [outcome EXCEPT ![b_idx] = "skipped"]
    /\ b_idx' = b_idx + 1
    /\ UNCHANGED <<script, caller, images, image_data_list, ico_data, disk, offset, i,
                   pc, tamper>>
    /\ UNCHANGED verVars
    /\ UNCHANGED <<style, first>> /\ UNCHANGED mainVars /\ UNCHANGED drawVars

\* try: svg_to_ico(svg_path, ico_path) returns
CI_Convert ==
    /\ script = "convert_icons" /\ pc = "start" /\ b_idx \in icons
    /\ outcome' = [outcome EXCEPT ![b_idx] = "created"]
    /\ b_idx' = b_idx + 1
    /\ UNCHANGED <<script, caller, images, image_data_list, ico_data, disk, offset, i,
                   pc, tamper>>
    /\ UNCHANGED verVars
    /\ UNCHANGED <<style, first>> /\ UNCHANGED mainVars /\ UNCHANGED drawVars

\* except Exception as e: print the error
CI_Error ==
    /\ script = "convert_icons" /\ pc = "start" /\ b_idx \in icons
    /\ outcome' = [outcome EXCEPT ![b_idx] = "error"]
    /\ b_idx' = b_idx + 1
    /\ UNCHANGED <<script, caller, images, image_data_list, ico_data, disk, offset, i,
                   pc, tamper>>
    /\ UNCHANGED verVars
    /\ UNCHANGED <<style, first>> /\ UNCHANGED mainVars /\ UNCHANGED drawVars

\* the loop is over: "Conversion complete!"
CI_Done ==
    /\ script = "convert_icons" /\ pc = "start" /\ b_idx \notin icons
    /\ pc' = "batch_done"
    /\ UNCHANGED <<script, caller, images, image_data_list, ico_data, disk, offset, i,
                   tamper>>
    /\ UNCHANGED verVars /\ UNCHANGED batchVars
    /\ UNCHANGED <<style, first>> /\ UNCHANGED mainVars /\ UNCHANGED drawVars

----------------------------------------------------------------------------
(* convert_to_ico.main: the procedural batch driver *)

\* create_app_ico() returns
CTI_AppIcon ==
    /\ script = "convert_to_ico_main" /\ pc = "start"
    /\ pc' = "cti_loop"
    /\ UNCHANGED <<script, caller, images, image_data_list, ico_data, disk, offset, i,
                   tamper>>
    /\ UNCHANGED verVars /\ UNCHANGED batchVars
    /\ UNCHANGED <<style, first>> /\ UNCHANGED mainVars /\ UNCHANGED drawVars

\* for status in STATUS_COLORS.keys(): create_ico(status) returns
CTI_CreateIco ==
    /\ script = "convert_to_ico_main" /\ pc = "cti_loop" /\ b_idx \in icons
    /\ outcome' = [outcome EXCEPT ![b_idx] = "created"]
    /\ b_idx' = b_idx + 1
    /\ UNCHANGED <<script, caller, images, image_data_list, ico_data, disk, offset, i,
                   pc, tamper>>
    /\ UNCHANGED verVars
    /\ UNCHANGED <<style, first>> /\ UNCHANGED mainVars /\ UNCHANGED drawVars

\* create_app_ico() or create_ico(status) raises: nothing in main catches it
CTI_Raise ==
    /\ script = "convert_to_ico_main"
    /\ pc = "start" \/ (pc = "cti_loop" /\ b_idx \in icons)
    /\ pc' = "batch_aborted"
    /\ UNCHANGED <<script, caller, images, image_data_list, ico_data, disk, offset, i,
                   tamper>>
    /\ UNCHANGED verVars /\ UNCHANGED batchVars
    /\ UNCHANGED <<style, first>> /\ UNCHANGED mainVars /\ UNCHANGED drawVars

\* the loop is over: "All ICO files created successfully!", then the previews
CTI_Done ==
    /\ script = "convert_to_ico_main" /\ pc = "cti_loop" /\ b_idx \notin icons
    /\ pc' = "batch_done"
    /\ UNCHANGED <<script, caller, images, image_data_list, ico_data, disk, offset, i,
                   tamper>>
    /\ UNCHANGED verVars /\ UNCHANGED batchVars
    /\ UNCHANGED <<style, first>> /\ UNCHANGED mainVars /\ UNCHANGED drawVars

----------------------------------------------------------------------------
(* Both encoders on the same images *)

\* create_ico_file(images, path_1) is called with any list of images
BothCall ==
    /\ script = "both_encoders" /\ pc = "start"
    /\ \E imgs \in DirectInputs : images' = imgs
    /\ caller' = "direct"
    /\ pc' = "cif_header"
    /\ UNCHANGED <<script, image_data_list, ico_data, disk, offset, i, tamper>>
    /\ UNCHANGED verVars /\ UNCHANGED batchVars
    /\ UNCHANGED <<style, first>> /\ UNCHANGED mainVars /\ UNCHANGED drawVars

\* create_ico_file has returned; create_ico_manually(images, path_2) is called
\* with the same images, path_2 not existing yet
SecondEncoder ==
    /\ script = "both_encoders" /\ pc = "written" /\ tamper = "none" /\ ~first.done
    /\ first' = [done |-> TRUE, file |-> disk.data, payloads |-> image_data_list]
    /\ image_data_list' = <<>>
    /\ disk' = NoFile
    /\ i' = 1
    /\ pc' = "cim_png"
    /\ UNCHANGED <<script, caller, images, ico_data, offset, tamper, style>>
    /\ UNCHANGED verVars /\ UNCHANGED batchVars /\ UNCHANGED mainVars /\ UNCHANGED drawVars

----------------------------------------------------------------------------
(* verify_ico_structure.main *)

RECURSIVE IcoEntries(_, _, _)
\* the directory create_ico_file writes for imgs from entry k on, payloads of one byte
IcoEntries(imgs, k, off) ==
    IF k > Len(imgs) THEN <<>>
    ELSE IconDirEntry(CifDim(imgs[k].width), CifDim(imgs[k].height), 1, off)
            \o IcoEntries(imgs, k + 1, off + 1)

\* the file create_ico_file writes for imgs, payloads of one byte
IcoFile(imgs) ==
    IconDir(Len(imgs)) \o IcoEntries(imgs, 1, CifOffset(Len(imgs)))
        \o Concat([k \in 1..Len(imgs) |-> PngData(imgs[k], 1)])

\* the header of b with another type field
WithType(b, t) == SubSeq(b, 1, 2) \o PackH(t) \o SubSeq(b, 5, Len(b))

\* contents main may find under an icon's path: the expected file, files with
\* another size set, a cursor file (type 2), a file cut inside the header, and
\* files cut inside the directory after one and after two entries
IconFiles ==
    LET good == IcoFile(Squares(create_icon_sizes))
    IN {good,
        IcoFile(Squares(SIZES)),
        IcoFile(Squares(<<256>>)),
        WithType(good, 2),
        SubSeq(good, 1, 3),
        SubSeq(good, 1, header_size + dir_entry_size + 8),
        SubSeq(good, 1, header_size + 2 * dir_entry_size)}

\* all_valid = all_valid and valid
AllValidBugLast(a, valid) == valid
AllValid(a, valid) == a /\ valid

\* else: print NOT FOUND; all_valid = False
VM_NotFound ==
    /\ script = "verify_ico_structure_main" /\ pc = "start" /\ b_idx \in icons
    /\ outcome' = [outcome EXCEPT ![b_idx] = "not_found"]
    /\ all_valid' = FALSE
    /\ b_idx' = b_idx + 1
    /\ UNCHANGED <<script, caller, images, image_data_list, ico_data, disk, offset, i,
                   pc, tamper, style, first, exit_code>>
    /\ UNCHANGED verVars /\ UNCHANGED drawVars

\* if os.path.exists(ico_path): verify_ico_structure(ico_path) is called
VM_Verify ==
    /\ script = "verify_ico_structure_main" /\ pc = "start" /\ b_idx \in icons
    /\ \E f \in IconFiles : disk' = File(f)
    /\ pc' = "written"
    /\ UNCHANGED <<script, caller, images, image_data_list, ico_data, offset, i,
                   tamper, style, first>>
    /\ UNCHANGED verVars /\ UNCHANGED batchVars /\ UNCHANGED mainVars /\ UNCHANGED drawVars

\* valid = verify_ico_structure(ico_path) has returned;
\* all_valid = all_valid and valid; the callee's locals are gone
VM_Collect ==
    /\ script = "verify_ico_structure_main" /\ pc = "v_done"
    /\ LET valid == (result = "True")
       IN /\ all_valid' = AllValid(all_valid, valid)
          /\ outcome' = [outcome EXCEPT ![b_idx] = IF valid THEN "pass" ELSE "fail"]
    /\ b_idx' = b_idx + 1
    /\ pc' = "start"
    /\ type_field' = 0 /\ count' = 0 /\ sizes' = <<>> /\ vi' = 0
    /\ incomplete' = FALSE /\ status' = "none" /\ result' = "none"
    /\ tamper' = "none"
    /\ UNCHANGED <<script, caller, images, image_data_list, ico_data, disk, offset, i,
                   style, first, exit_code>>
    /\ UNCHANGED drawVars

\* return all_valid; sys.exit(0 if main() else 1)
VM_Exit ==
    /\ script = "verify_ico_structure_main" /\ pc = "start" /\ b_idx \notin icons
    /\ exit_code' = IF all_valid THEN 0 ELSE 1
    /\ pc' = "exited"
    /\ UNCHANGED <<script, caller, images, image_data_list, ico_data, disk, offset, i,
                   tamper, style, first, all_valid>>
    /\ UNCHANGED verVars /\ UNCHANGED batchVars /\ UNCHANGED drawVars

----------------------------------------------------------------------------
(* draw_coffee_cup (create_multisize_ico.py and convert_icons_pil.py), called by
   create_icon once per size *)

\* max(a, b)
max(a, b) == IF a >= b THEN a ELSE b

\* int(k * scale) with scale = size / 48.0, for an integer k
int_scale(k, size) == (k * size) \div 48

\* int(2.5 * scale)
int_scale_2_5(size) == (5 * size) \div 96

cup_x(size) == int_scale(16, size)
cup_y(size) == int_scale(22, size)
cup_width(size) == int_scale(16, size)
cup_height(size) == int_scale(18, size)

\* cup_radius = max(1, int(2 * scale)) in create_multisize_ico.py,
\* cup_radius = int(2 * scale) in convert_icons_pil.py
cup_radius(m, size) ==
    IF m = "create_multisize_ico_draw" THEN max(1, int_scale(2, size)) ELSE int_scale(2, size)

center_x(size) == cup_x(size) + cup_width(size) \div 2
surface_rx(size) == int_scale(8, size)

\* surface_ry = max(1, int(2 * scale)) in create_multisize_ico.py,
\* surface_ry = int(2 * scale) in convert_icons_pil.py
surface_ry(m, size) ==
    IF m = "create_multisize_ico_draw" THEN max(1, int_scale(2, size)) ELSE int_scale(2, size)

\* handle_width = max(1, int(2.5 * scale)); convert_icons_pil.py: if handle_width < 1: 1
handle_width(size) == max(1, int_scale_2_5(size))
handle_x(size) == cup_x(size) + cup_width(size)
handle_y1(size) == int_scale(28, size)
handle_y2(size) == int_scale(36, size)
handle_extend(size) == int_scale(4, size)

\* steam_width = max(1, int(2 * scale))
steam_width(size) == max(1, int_scale(2, size))

\* one drawing call: the part of the cup, the ImageDraw method, the bounding box
\* and the radius= or width= argument (0 for ellipse, which has neither)
Call(part, idx, op, box, w) == [part |-> part, idx |-> idx, op |-> op, box |-> box, w |-> w]

\* the arc of one steam line: [x - 1, int(top * scale), x + 3, int(bottom * scale)]
SteamArc(idx, xk, top, bottom, size) ==
    Call("steam", idx, "arc",
         <<int_scale(xk, size) - 1, int_scale(top, size),
           int_scale(xk, size) + 3, int_scale(bottom, size)>>,
         steam_width(size))

\* the size create_icon is drawing
DrawSize == create_icon_sizes[dc.k]

Drawing == script \in DrawScripts /\ pc = "start"

\* draw.rounded_rectangle([cup_x, cup_y, cup_x + cup_width, cup_y + cup_height], radius=cup_radius)
DC_Body ==
    /\ Drawing /\ dc.step = "body"
    /\ LET size == DrawSize
       IN canvas' = Append(canvas,
              Call("body", 0, "rounded_rectangle",
                   <<cup_x(size), cup_y(size),
                     cup_x(size) + cup_width(size), cup_y(size) + cup_height(size)>>,
                   cup_radius(script, size)))
    /\ dc' = [dc EXCEPT !.step = "surface"]
    /\ UNCHANGED <<script, caller, images, image_data_list, ico_data, disk, offset, i,
                   pc, tamper, style, first, steam_color, drawn>>
    /\ UNCHANGED verVars /\ UNCHANGED batchVars /\ UNCHANGED mainVars

\* draw.ellipse([center_x - surface_rx, surface_y - surface_ry,
\*               center_x + surface_rx, surface_y + surface_ry])
DC_Surface ==
    /\ Drawing /\ dc.step = "surface"
    /\ LET size == DrawSize
           surface_y == cup_y(size)
       IN canvas' = Append(canvas,
              Call("surface", 0, "ellipse",
                   <<center_x(size) - surface_rx(size), surface_y - surface_ry(script, size),
                     center_x(size) + surface_rx(size), surface_y + surface_ry(script, size)>>,
                   0))
    /\ dc' = [dc EXCEPT !.step = "handle", !.hi = 0]
    /\ UNCHANGED <<script, caller, images, image_data_list, ico_data, disk, offset, i,
                   pc, tamper, style, first, steam_color, drawn>>
    /\ UNCHANGED verVars /\ UNCHANGED batchVars /\ UNCHANGED mainVars

\* for i in range(handle_width): draw.arc([handle_x + i, handle_y1,
\*                                         handle_x + handle_extend, handle_y2], width=1)
DC_Handle ==
    /\ Drawing /\ dc.step = "handle" /\ dc.hi < handle_width(DrawSize)
    /\ LET size == DrawSize
       IN canvas' = Append(canvas,
              Call("handle", dc.hi, "arc",
                   <<handle_x(size) + dc.hi, handle_y1(size),
                     handle_x(size) + handle_extend(size), handle_y2(size)>>,
                   1))
    /\ dc' = [dc EXCEPT !.hi = dc.hi + 1]
    /\ UNCHANGED <<script, caller, images, image_data_list, ico_data, disk, offset, i,
                   pc, tamper, style, first, steam_color, drawn>>
    /\ UNCHANGED verVars /\ UNCHANGED batchVars /\ UNCHANGED mainVars

\* if steam_color: the three steam arcs
DC_Steam ==
    /\ Drawing /\ dc.step = "handle" /\ dc.hi >= handle_width(DrawSize)
    /\ LET size == DrawSize
       IN canvas' = IF steam_color
                    THEN canvas \o <<SteamArc(1, 20, 14, 18, size),
                                     SteamArc(2, 24, 11, 16, size),
                                     SteamArc(3, 28, 14, 18, size)>>
                    ELSE canvas
    /\ dc' = [dc EXCEPT !.step = "return"]
    /\ UNCHANGED <<script, caller, images, image_data_list, ico_data, disk, offset, i,
                   pc, tamper, style, first, steam_color, drawn>>
    /\ UNCHANGED verVars /\ UNCHANGED batchVars /\ UNCHANGED mainVars

\* draw_coffee_cup has returned: images.append(img), next size
DC_Append ==
    /\ Drawing /\ dc.step = "return"
    /\ drawn' = Append(drawn, [size |-> DrawSize, calls |-> canvas])
    /\ canvas' = <<>>
    /\ IF dc.k < Len(create_icon_sizes)
       THEN dc' = [k |-> dc.k + 1, step |-> "body", hi |-> 0] /\ pc' = pc
       ELSE dc' = [dc EXCEPT !.step = "done"] /\ pc' = "drawn"
    /\ UNCHANGED <<script, caller, images, image_data_list, ico_data, disk, offset, i,
                   tamper, style, first, steam_color>>
    /\ UNCHANGED verVars /\ UNCHANGED batchVars /\ UNCHANGED mainVars

----------------------------------------------------------------------------

Next ==
    \/ create_icon \/ create_ico \/ DirectCall
    \/ CIF_Header \/ CIF_Png \/ CIF_Offset \/ CIF_Entry \/ CIF_Data \/ CIF_Write
    \/ CIM_Png \/ CIM_Open \/ CIM_Header \/ CIM_Entry \/ CIM_Data
    \/ Truncate \/ CorruptHeader
    \/ V_Header \/ V_Entry \/ V_Report
    \/ CI_Skip \/ CI_Convert \/ CI_Error \/ CI_Done
    \/ CTI_AppIcon \/ CTI_CreateIco \/ CTI_Raise \/ CTI_Done
    \/ VM_NotFound \/ VM_Verify \/ VM_Collect \/ VM_Exit
    \/ BothCall \/ SecondEncoder
    \/ DC_Body \/ DC_Surface \/ DC_Handle \/ DC_Steam \/ DC_Append

Spec == Init /\ [][Next]_vars

----------------------------------------------------------------------------
(* Reading a written file back, for the properties below *)

Encoders == {"create_multisize_ico", "convert_to_ico"}

\* the encoder has returned and the file is as it wrote it
Finished ==
    /\ script \in Encoders
    /\ pc \in {"written", "v_entry", "v_report", "v_done"}
    /\ tamper = "none"

\* 1-based position of the first byte of directory entry k
EntryBase(k) == 6 + 16 * (k - 1)
EntryWidthByte(b, k) == b[EntryBase(k) + 1]
EntryHeightByte(b, k) == b[EntryBase(k) + 2]
EntrySize(b, k) == UnpackI(b, EntryBase(k) + 9)
EntryOffset(b, k) == UnpackI(b, EntryBase(k) + 13)

RECURSIVE SumLen(_, _)
\* total length of the first k payloads
SumLen(list, k) == IF k = 0 THEN 0 ELSE Len(list[k]) + SumLen(list, k - 1)

PairOf(img) == <<img.width, img.height>>
Occurrences(s, x) == Cardinality({k \in 1..Len(s) : s[k] = x})

----------------------------------------------------------------------------
(* C1 *)

\* C1: in every file an encoder wrote for N images, directory entry i carries
\* offset 6 + 16*N + (sum of the payload lengths before i), and the last entry's
\* offset plus size is the length of the file.
C1_OffsetsContiguous ==
    Finished =>
        LET b == disk.data
            n == Len(images)
        IN /\ Len(b) >= 6 + 16 * n
           /\ \A k \in 1..n :
                 /\ EntrySize(b, k) = Len(image_data_list[k])
                 /\ EntryOffset(b, k) = 6 + 16 * n + SumLen(image_data_list, k - 1)
           /\ n >= 1 => EntryOffset(b, n) + EntrySize(b, n) = Len(b)

\* a finished file of create_ico_file for two images, the first payload two bytes long
C1_Witness ==
    /\ Finished /\ pc = "written" /\ script = "create_multisize_ico"
    /\ Len(images) = 2
    /\ Len(image_data_list[1]) = 2
    /\ EntryOffset(disk.data, 2) = 40

----------------------------------------------------------------------------
(* C2 *)

\* C2: in every file an encoder wrote, the header is reserved 0, type 1,
\* count = number of input bitmaps; there are exactly that many directory
\* entries and payloads, and entry i gives the size and place of payload i,
\* the encoding of input image i.
C2_HeaderCountsEntriesAndPayloads ==
    Finished =>
        LET b == disk.data
            n == Len(images)
        IN /\ Len(b) >= 6
           /\ UnpackH(b, 1) = 0
           /\ UnpackH(b, 3) = 1
           /\ UnpackH(b, 5) = n
           /\ Len(image_data_list) = n
           /\ Len(b) = 6 + 16 * UnpackH(b, 5) + SumLen(image_data_list, n)
           /\ \A k \in 1..n :
                 /\ \E len \in PayloadLens : image_data_list[k] = PngData(images[k], len)
                 /\ SubSeq(b, EntryOffset(b, k) + 1, EntryOffset(b, k) + EntrySize(b, k))
                       = image_data_list[k]
                 /\ SubSeq(b, EntryBase(k) + 3, EntryBase(k) + 8) = <<0, 0, 1, 0, 32, 0>>

\* a finished file of create_ico_manually for the five SIZES
C2_Witness ==
    /\ Finished /\ pc = "written" /\ caller = "create_ico"
    /\ UnpackH(disk.data, 5) = 5
    /\ Len(image_data_list) = 5

----------------------------------------------------------------------------
(* C3 *)

\* the byte the claim expects for a dimension in 1..256
ExpectedDimByte(d) == IF d = 256 THEN 0 ELSE d

\* C3: the width byte and the height byte of entry i are the image's dimension
\* when it is in 1..255 and 0 when it is 256.
C3_DimensionByte ==
    Finished =>
        \A k \in 1..Len(images) :
            /\ images[k].width \in 1..256 =>
                  EntryWidthByte(disk.data, k) = ExpectedDimByte(images[k].width)
            /\ images[k].height \in 1..256 =>
                  EntryHeightByte(disk.data, k) = ExpectedDimByte(images[k].height)

\* a finished file with a 255 image stored as 255 and a 256 image stored as 0
C3_Witness ==
    /\ Finished /\ Len(images) = 2
    /\ images[1] = Square(255) /\ EntryWidthByte(disk.data, 1) = 255
    /\ images[2] = Square(256) /\ EntryHeightByte(disk.data, 2) = 0

----------------------------------------------------------------------------
(* C4 *)

\* C4: round trip: the verifier, run on a file an encoder wrote, collects as many
\* (width, height) pairs as there were input bitmaps, and the same multiset.
C4_RoundTrip ==
    (Finished /\ pc = "v_done") =>
        /\ Len(sizes) = Len(images)
        /\ \A k \in 1..Len(images) :
              Occurrences(sizes, PairOf(images[k]))
                  = Cardinality({j \in 1..Len(images) : PairOf(images[j]) = PairOf(images[k])})

----------------------------------------------------------------------------
(* C5 *)

\* not square, or a dimension above 256
Invalid(img) == img.width # img.height \/ img.width > 256 \/ img.height > 256

\* C5: when a bitmap handed to an encoder is not square or larger than 256, the
\* encoder fails before writing: the output file is never created and the
\* encoder never returns normally.
C5_InvalidInputRejected ==
    (script \in Encoders /\ \E k \in 1..Len(images) : Invalid(images[k])) =>
        /\ disk = NoFile
        /\ pc \notin {"written", "v_entry", "v_report", "v_done"}

----------------------------------------------------------------------------
(* C6 *)

\* C6: when the header's reserved field is not 0 or its type field is not 1, the
\* verifier returns failure and parses no directory entry.
C6_HeaderValidated ==
    (/\ script \in Encoders
     /\ pc \in {"v_entry", "v_report", "v_done"}
     /\ Len(disk.data) >= 6
     /\ (UnpackH(disk.data, 1) # 0 \/ UnpackH(disk.data, 3) # 1)) =>
        /\ pc = "v_done"
        /\ result = "False"
        /\ sizes = <<>>

----------------------------------------------------------------------------
(* C7 *)

\* C7: when a written file is truncated to fewer than 6 + 16*count bytes, the
\* verifier's outcome for it is failure.
C7_TruncationFails ==
    (script \in Encoders /\ tamper = "truncated" /\ pc = "v_done") => result = "False"

----------------------------------------------------------------------------
(* C8 *)

\* C8: the file create_icon writes for sizes [16, 24, 32, 48] has 70 bytes plus
\* the four payload lengths, and the verifier finds in it exactly four entries,
\* the four expected pairs, status OK, and returns success.
C8_EndToEnd ==
    (Finished /\ caller = "create_icon") =>
        /\ Len(disk.data) = 70 + SumLen(image_data_list, 4)
        /\ pc = "v_done" =>
              /\ Len(sizes) = 4
              /\ set(sizes) = {<<16, 16>>, <<24, 24>>, <<32, 32>>, <<48, 48>>}
              /\ status = "OK"
              /\ result = "True"

\* the verifier has returned success on create_icon's file
C8_Witness ==
    /\ Finished /\ caller = "create_icon" /\ pc = "v_done"
    /\ Len(sizes) = 4 /\ result = "True"
    /\ Len(disk.data) = 76

----------------------------------------------------------------------------
(* C9 *)

\* C9 as claimed: on a structurally valid file the verifier reports OK exactly
\* when the set of distinct pairs is the expected set, and passes exactly when
\* it reports OK.
C9_SetVerdict ==
    (Finished /\ pc = "v_done") =>
        /\ status = "OK" <=> set(sizes) = {<<16, 16>>, <<24, 24>>, <<32, 32>>, <<48, 48>>}
        /\ result = "True" <=> status = "OK"

\* C9 amended: on a structurally valid file the verifier reports OK exactly when
\* the directory holds exactly four entries whose pairs are the four expected
\* ones (a duplicate makes it a WARNING), and it passes exactly when it reports
\* OK or read at least two entries.
C9_ListVerdict ==
    (Finished /\ pc = "v_done") =>
        /\ status \in {"OK", "WARNING"}
        /\ status = "OK" <=>
              (/\ Len(sizes) = 4
               /\ set(sizes) = {<<16, 16>>, <<24, 24>>, <<32, 32>>, <<48, 48>>})
        /\ result = "True" <=> (status = "OK" \/ Len(sizes) >= 2)

\* a file with the four expected sizes and a duplicate: WARNING, and pass
C9_Witness ==
    /\ Finished /\ pc = "v_done"
    /\ Len(sizes) = 5
    /\ set(sizes) = {<<16, 16>>, <<24, 24>>, <<32, 32>>, <<48, 48>>}
    /\ status = "WARNING"
    /\ result = "True"

----------------------------------------------------------------------------
(* C10 *)

\* C10: a batch driver never ends with an icon of its list unprocessed: each one
\* was skipped, created, or failed with its error logged.
C10_EveryIconProcessed ==
    pc \in {"batch_done", "batch_aborted"} => \A k \in icons : outcome[k] # "pending"

----------------------------------------------------------------------------
(* C14 *)

\* C14: create_ico with a status that is no key of STATUS_COLORS raises: no
\* bitmap is returned to create_ico, the encoder is never entered and no file
\* is created or written.
C14_UnsupportedStyleFatal ==
    (script = "convert_to_ico" /\ caller = "create_ico" /\ style \notin STATUS_COLORS) =>
        /\ pc = "raised"
        /\ images = <<>>
        /\ image_data_list = <<>>
        /\ disk = NoFile

\* create_ico("unknown") has raised
C14_Witness ==
    /\ script = "convert_to_ico" /\ caller = "create_ico"
    /\ style = "unknown"
    /\ pc = "raised"

----------------------------------------------------------------------------
(* C11 *)

\* C11: whatever the file holds, verify_ico_structure returns a pass or fail
\* value; main analyses all three icons and exits with code 0 exactly when
\* every icon file existed and its verification returned pass.
C11_AggregateVerdict ==
    script = "verify_ico_structure_main" =>
        /\ pc = "v_done" => result \in {"True", "False"}
        /\ pc = "exited" =>
              /\ \A k \in icons : outcome[k] \in {"not_found", "pass", "fail"}
              /\ exit_code \in {0, 1}
              /\ exit_code = 0 <=> \A k \in icons : outcome[k] = "pass"
              /\ all_valid <=> exit_code = 0

\* main has exited with 1 although the last icon passed: the first failed
C11_Witness ==
    /\ script = "verify_ico_structure_main" /\ pc = "exited"
    /\ outcome[1] = "fail" /\ outcome[2] = "not_found" /\ outcome[3] = "pass"
    /\ exit_code = 1

----------------------------------------------------------------------------
(* C15 *)

\* C15: for the same images and the same payload bytes, the file
\* create_ico_manually writes is byte for byte the file create_ico_file wrote.
C15_EncodersAgree ==
    (/\ script = "both_encoders" /\ first.done
     /\ pc \in {"written", "v_entry", "v_report", "v_done"}
     /\ tamper = "none") =>
        /\ image_data_list = first.payloads
        /\ disk.exists
        /\ disk.data = first.file

\* both encoders have written the file of the four default sizes and a 300x300
\* image, with payloads of different lengths
C15_Witness ==
    /\ script = "both_encoders" /\ first.done /\ pc = "written" /\ tamper = "none"
    /\ Len(images) = 5 /\ images[5] = Square(300)
    /\ Len(image_data_list[1]) = 1 /\ Len(image_data_list[2]) = 2
    /\ Len(disk.data) > 86
    /\ disk.data = first.file

----------------------------------------------------------------------------
(* C12, C13: the drawing calls *)

Abs(x) == IF x < 0 THEN -x ELSE x

\* every drawing made so far, the one in progress included
Drawings ==
    {drawn[k] : k \in 1..Len(drawn)}
        \cup (IF canvas = <<>> \/ pc # "start" THEN {}
              ELSE {[size |-> DrawSize, calls |-> canvas]})

CallsOf(d) == {d.calls[k] : k \in 1..Len(d.calls)}

\* C12: in every rasterizer script and at every size, the corner radius, both
\* radii of the coffee surface, the handle arcs' width and the steam stroke
\* width handed to a drawing call are at least 1 pixel.
C12_MinimumFeatureSize ==
    script \in DrawScripts =>
        \A d \in Drawings : \A c \in CallsOf(d) :
            /\ c.op \in {"rounded_rectangle", "arc"} => c.w >= 1
            /\ c.op = "ellipse" =>
                  /\ c.box[3] - c.box[1] >= 2
                  /\ c.box[4] - c.box[2] >= 2

\* the finished drawing of a size
DrawingOf(size) == CHOOSE d \in {drawn[k] : k \in 1..Len(drawn)} : d.size = size

\* C13: for the same style, every coordinate, every extent of a bounding box and
\* every radius or stroke width of a call at size 48 is 3 times that of the
\* corresponding call at size 16, within 1 pixel; so is the number of handle arcs
\* (the handle width).
C13_ProportionalScaling ==
    (script \in DrawScripts /\ pc = "drawn") =>
        LET small == DrawingOf(16)
            large == DrawingOf(48)
            Handles(d) == Cardinality({c \in CallsOf(d) : c.part = "handle"})
        IN /\ Abs(Handles(large) - 3 * Handles(small)) <= 1
           /\ \A a \in CallsOf(small) : \A b \in CallsOf(large) :
                 (a.part = b.part /\ a.idx = b.idx) =>
                    /\ \A j \in 1..4 : Abs(b.box[j] - 3 * a.box[j]) <= 1
                    /\ Abs((b.box[3] - b.box[1]) - 3 * (a.box[3] - a.box[1])) <= 1
                    /\ Abs((b.box[4] - b.box[2]) - 3 * (a.box[4] - a.box[2])) <= 1
                    /\ Abs(b.w - 3 * a.w) <= 1

====
